---- MODULE Spec2Model ----
(***************************************************************************)
(* Model of the batch driver of crossref-preprint-matching:               *)
(* preprint_matching/preprint_match_data_files.py (main and               *)
(* process_match_items).  One action per step of main(), one action per   *)
(* iteration of the item loop.                                             *)
(***************************************************************************)
EXTENDS Integers, Sequences, FiniteSets, TLC

\* ---------------------------------------------------------------- bounds
MaxItems == 3
MaxThreshold == 2
MaxRecordItems == 2
MaxEvalRecords == 2
MaxDenominator == 3

\* ------------------------------------------------------ program constants
DEFAULT_MAX_CONSECUTIVE_LINE_FAILURES == 10
DEFAULT_MAX_CONSECUTIVE_FILE_FAILURES == 3

VARIABLES
    pc,                            \* position of main()
    format,                        \* args.format
    max_consecutive_line_failures, \* args.max_consecutive_line_failures
    max_consecutive_file_failures, \* args.max_consecutive_file_failures
    nItems,                        \* len(items_list)
    i,                             \* number of list elements the loop has visited
    processed_items,
    matched_items,
    items_with_errors,
    consecutive_item_failures,
    processing_halted_by_breaker,
    all_results_json,              \* records collected for the json format
    output_writer,                 \* "None", "csv" (DictWriter) or "json" (all_results_json)
    outfile,                       \* data records held by the output file
    session,                       \* matching_strategy.session
    exit_code,                     \* status of sys.exit, -1 while running / normal return
    success,                       \* return value of process_match_items
    last,                          \* the element visited by the latest iteration
    trace,                         \* outcome of every visited element, in order
    \* utils/calculate_precision_recall_f-scores.py
    epc,                           \* position of the evaluation tool's main()
    json_output,                   \* args.json_output
    test_data_json,                \* the reference file
    results_json,                  \* the results file
    reference_data,                \* return value of load_reference_from_json
    test_data,                     \* return value of load_results_from_json
    metrics,                       \* return value of calculate_metrics
    report,                        \* what main printed, and where
    eval_exit,                     \* status of sys.exit, -1 while running / normal return
    fbeta_args,                    \* arguments of a call of calculate_f_beta
    fbeta_result                   \* its result

evalVars == <<epc, json_output, test_data_json, results_json, reference_data,
              test_data, metrics, report, eval_exit, fbeta_args, fbeta_result>>

driverVars == <<pc, format, max_consecutive_line_failures, max_consecutive_file_failures,
          nItems, i, processed_items, matched_items, items_with_errors,
          consecutive_item_failures, processing_halted_by_breaker,
          all_results_json, output_writer, outfile, session, exit_code, success,
          last, trace>>

vars == <<driverVars, evalVars>>

\* a rational number n/d
Frac(n, d) == [n |-> n, d |-> d]

\* a loader's return value: None, or a dict
NoneMap == [ok |-> FALSE, map |-> <<>>]
SomeMap(m) == [ok |-> TRUE, map |-> m]

NoMetrics == [computed |-> FALSE]
NoFile == [kind |-> "none", items |-> <<>>]
NoFBetaArgs == [precision |-> Frac(0, 1), recall |-> Frac(0, 1), beta |-> Frac(1, 1)]
NoFBetaResult == [tag |-> "none", val |-> Frac(0, 1)]

\* the evaluation tool is not running
EvalIdle ==
    /\ epc = "idle"
    /\ json_output = FALSE
    /\ test_data_json = NoFile
    /\ results_json = NoFile
    /\ reference_data = NoneMap
    /\ test_data = NoneMap
    /\ metrics = NoMetrics
    /\ report = "none"
    /\ eval_exit = -1
    /\ fbeta_args = NoFBetaArgs
    /\ fbeta_result = NoFBetaResult

\* ------------------------------------------------------------ text values
\* A string is a sequence of tokens; "" is <<>>.
EmptyStr == <<>>

IsSpace(t) == t = " "

RECURSIVE LStrip(_)
LStrip(s) == IF s # <<>> /\ IsSpace(Head(s)) THEN LStrip(Tail(s)) ELSE s

RECURSIVE RStrip(_)
RStrip(s) ==
    IF s # <<>> /\ IsSpace(s[Len(s)]) THEN RStrip(SubSeq(s, 1, Len(s) - 1)) ELSE s

\* str.strip()
Strip(s) == RStrip(LStrip(s))

\* str.replace(tok, "")
Replace(s, tok) == SelectSeq(s, LAMBDA t : t # tok)

\* str.lower() of one token
LowerTok(t) ==
    CASE t = "DOI:" -> "doi:"
      [] t = "https://DOI.ORG/" -> "https://doi.org/"
      [] t = "10.2/X" -> "10.2/x"
      [] t = "10.1/A" -> "10.1/a"
      [] t = "10.1/ABC" -> "10.1/abc"
      [] OTHER -> t

\* tokens that begin with the characters "10."
StartsWith10(t) ==
    t \in {"10.1/a", "10.1/A", "10.1/ABC", "10.1/abc", "10.1/b",
           "10.2/x", "10.2/X", "10.2/y", "10.2/z"}

\* urlparse(url).netloc for a url whose first token is t
Netloc(t) ==
    CASE t = "https://doi.org/" -> "doi.org"
      [] t = "https://DOI.ORG/" -> "DOI.ORG"
      [] t = "http://example.org/" -> "example.org"
      [] OTHER -> ""

NetlocLower(n) == IF n = "DOI.ORG" THEN "doi.org" ELSE n

\* Python values of a candidate's 'id': None, a str, or another type
NoneId == [type |-> "none", text |-> EmptyStr]
StrId(s) == [type |-> "str", text |-> s]
IntId == [type |-> "int", text |-> EmptyStr]

\* truthiness of an id value
Truthy(v) == \/ v.type = "str" /\ v.text # EmptyStr
             \/ v.type = "int"

\* variant: the path of any URL with a host is taken as the DOI
extract_doi_from_url_any_host(url_string) ==
    IF ~Truthy(url_string) \/ url_string.type # "str" THEN EmptyStr
    ELSE LET s == url_string.text IN
         IF LowerTok(Head(s)) = "doi:" THEN Strip(Strip(Tail(s)))
         ELSE IF Netloc(Head(s)) # ""
              THEN Strip(Tail(s))
         ELSE IF Strip(s) # <<>> /\ StartsWith10(Head(Strip(s)))
              THEN Strip(Strip(s))
         ELSE EmptyStr

\* lines 115-138; the empty string stands for None
extract_doi_from_url(url_string) ==
    IF ~Truthy(url_string) \/ url_string.type # "str" THEN EmptyStr
    ELSE LET s == url_string.text IN
         IF LowerTok(Head(s)) = "doi:" THEN Strip(Strip(Tail(s)))
         ELSE IF Netloc(Head(s)) # "" /\ NetlocLower(Netloc(Head(s))) = "doi.org"
              THEN Strip(Tail(s))
         ELSE IF Strip(s) # <<>> /\ StartsWith10(Head(Strip(s)))
              THEN Strip(Strip(s))
         ELSE EmptyStr

\* --------------------------------------------------------- input elements
\* The 'input' field of an element: absent (None), a str, or another type.
NoInput == [type |-> "none", text |-> EmptyStr]
StrInput(doc) == [type |-> "str", text |-> doc]
IntInput == [type |-> "int", text |-> EmptyStr]

\* json.loads on the documents used as inputs:
\* ok = no JSONDecodeError, isdict = the value is a JSON object, doi = its 'DOI'.
JsonLoads(doc) ==
    CASE doc = <<"{bad">> -> [ok |-> FALSE, isdict |-> FALSE, doi |-> NoneId]
      [] doc = <<"[1]">> -> [ok |-> TRUE, isdict |-> FALSE, doi |-> NoneId]
      [] doc = <<"{}">> -> [ok |-> TRUE, isdict |-> TRUE, doi |-> NoneId]
      [] doc = <<"{DOI:10.1/a}">> ->
            [ok |-> TRUE, isdict |-> TRUE, doi |-> StrId(<<"10.1/a">>)]
      [] doc = <<"{DOI:https://doi.org/10.1/a}">> ->
            [ok |-> TRUE, isdict |-> TRUE, doi |-> StrId(<<"https://doi.org/", "10.1/a">>)]
      [] doc = <<"{DOI: doi:10.1/a }">> ->
            [ok |-> TRUE, isdict |-> TRUE, doi |-> StrId(<<" ", "doi:", "10.1/a", " ">>)]
      [] doc = <<"{DOI:10.1/ABC}">> ->
            [ok |-> TRUE, isdict |-> TRUE, doi |-> StrId(<<"10.1/ABC">>)]
      [] doc = <<"{DOI:https://doi.org/10.1/ABC}">> ->
            [ok |-> TRUE, isdict |-> TRUE, doi |-> StrId(<<"https://doi.org/", "10.1/ABC">>)]
      [] doc = <<"{DOI:doi:10.1/ABC}">> ->
            [ok |-> TRUE, isdict |-> TRUE, doi |-> StrId(<<"doi:", "10.1/ABC">>)]
      [] doc = <<"{DOI:10.1/b}">> ->
            [ok |-> TRUE, isdict |-> TRUE, doi |-> StrId(<<"10.1/b">>)]
      [] OTHER -> [ok |-> FALSE, isdict |-> FALSE, doi |-> NoneId]

Documents ==
    { <<"{bad">>, <<"[1]">>, <<"{}">>, <<"{DOI:10.1/a}">>,
      <<"{DOI:https://doi.org/10.1/a}">>, <<"{DOI: doi:10.1/a }">> }

\* elements of items_list
Items ==
    { [isdict |-> FALSE, input |-> NoInput] }
    \cup { [isdict |-> TRUE, input |-> inp] :
             inp \in {NoInput, IntInput, StrInput(<<"{bad">>), StrInput(<<"[1]">>),
                      StrInput(<<"{}">>), StrInput(<<"{DOI:https://doi.org/10.1/a}">>)} }

\* str.startswith("N/A")
StartsWithNA(s) == s # <<>> /\ Head(s) \in {"N/A", "N/A_MISSING_DOI", "N/A_INVALID_JSON_TYPE"}

\* variant: a JSON value that is not an object is accepted
ParseInputAcceptsNonObject(item) ==
    IF item.input = StrInput(<<"[1]">>)
    THEN [ok |-> TRUE, doi |-> <<"N/A_INVALID_JSON_TYPE">>]
    ELSE IF ~Truthy(item.input) \/ item.input.type # "str"
            \/ ~JsonLoads(item.input.text).ok
    THEN [ok |-> FALSE, doi |-> <<"N/A">>]
    ELSE IF ~Truthy(JsonLoads(item.input.text).doi)
    THEN [ok |-> TRUE, doi |-> <<"N/A_MISSING_DOI">>]
    ELSE [ok |-> TRUE,
          doi |-> Strip(Replace(Replace(JsonLoads(item.input.text).doi.text,
                                        "https://doi.org/"), "doi:"))]

\* variant: an object without 'DOI' is rejected like a non-object
ParseInputRejectsMissingDoi(item) ==
    IF ~Truthy(item.input) \/ item.input.type # "str"
       \/ ~JsonLoads(item.input.text).ok
    THEN [ok |-> FALSE, doi |-> <<"N/A">>]
    ELSE IF ~JsonLoads(item.input.text).isdict
    THEN [ok |-> FALSE, doi |-> <<"N/A_INVALID_JSON_TYPE">>]
    ELSE IF ~Truthy(JsonLoads(item.input.text).doi)
    THEN [ok |-> FALSE, doi |-> <<"N/A_MISSING_DOI">>]
    ELSE [ok |-> TRUE,
          doi |-> Strip(Replace(Replace(JsonLoads(item.input.text).doi.text,
                                        "https://doi.org/"), "doi:"))]

\* lines 224-248 and the handler of line 294: the parse of one element.
\* ok = item_processed_successfully, doi = input_doi_extracted.
ParseInput(item) ==
    LET input_json_string == item.input IN
    IF ~Truthy(input_json_string)
    THEN [ok |-> FALSE, doi |-> <<"N/A">>]
    ELSE IF input_json_string.type # "str"
    THEN [ok |-> FALSE, doi |-> <<"N/A">>]            \* json.loads raises TypeError
    ELSE LET input_data_parsed == JsonLoads(input_json_string.text) IN
         IF ~input_data_parsed.ok
         THEN [ok |-> FALSE, doi |-> <<"N/A">>]        \* JSONDecodeError
         ELSE IF input_data_parsed.isdict
         THEN IF ~Truthy(input_data_parsed.doi)
              THEN [ok |-> TRUE, doi |-> <<"N/A_MISSING_DOI">>]
              ELSE [ok |-> TRUE,
                    doi |-> Strip(Replace(Replace(input_data_parsed.doi.text,
                                                  "https://doi.org/"), "doi:"))]
         ELSE [ok |-> FALSE, doi |-> <<"N/A_INVALID_JSON_TYPE">>]

\* ------------------------------------------------------- strategy results
\* a candidate's 'confidence': None, a number (in units of 10^-5) or a str
NoConf == [type |-> "none", val |-> 0]
NumConf(n) == [type |-> "num", val |-> n]
StrConf == [type |-> "str", val |-> 0]

\* the text of a confidence: "", the number with 4 decimals (val in units of
\* 10^-4), or the str itself
EmptyConfStr == [kind |-> "empty", val |-> 0]
Format4f(n) == [kind |-> "number", val |-> (n + 5) \div 10]
TextConfStr == [kind |-> "text", val |-> 0]

\* variant: a confidence that is not a number is dropped
ConfidenceStrNumbersOnly(confidence) ==
    IF confidence.type = "num" THEN Format4f(confidence.val) ELSE EmptyConfStr

\* lines 263-268
ConfidenceStr(confidence) ==
    IF confidence.type = "num" THEN Format4f(confidence.val)
    ELSE IF confidence.type # "none" THEN TextConfStr
    ELSE EmptyConfStr

NotADict == [isdict |-> FALSE, id |-> NoneId, confidence |-> NoConf]
Cand(id, conf) == [isdict |-> TRUE, id |-> id, confidence |-> conf]

Candidates ==
    { NotADict,
      Cand(NoneId, NumConf(90000)),
      Cand(IntId, NumConf(90000)),
      Cand(StrId(<<"https://doi.org/", "10.2/x">>), NumConf(87654)),
      Cand(StrId(<<"doi:", "10.2/x">>), StrConf),
      Cand(StrId(<<"10.2/y">>), NoConf),
      Cand(StrId(<<"http://example.org/", "abc">>), NumConf(90000)) }

\* return values of matching_strategy.match: None, a list, or an exception
HardFailure == [tag |-> "none", cands |-> <<>>]
Raises == [tag |-> "raise", cands |-> <<>>]
Matches(cs) == [tag |-> "list", cands |-> cs]

MatchResults ==
    { HardFailure, Raises, Matches(<<>>),
      Matches(<<Cand(StrId(<<"https://doi.org/", "10.2/x">>), NumConf(87654))>>) }

\* results with every kind of first candidate, and with a second candidate
RecordMatchResults ==
    { HardFailure, Raises, Matches(<<>>) }
    \cup { Matches(<<c>>) : c \in Candidates }
    \cup { Matches(<<c, Cand(StrId(<<"10.2/y">>), NumConf(80000))>>) :
             c \in { NotADict,
                     Cand(StrId(<<"https://doi.org/", "10.2/x">>), NumConf(87654)),
                     Cand(StrId(<<"http://example.org/", "abc">>), NumConf(90000)) } }

NotCalled == [tag |-> "notcalled", cands |-> <<>>]

\* variant: an empty candidate list is reported like the hard-failure signal
MatchOutcomeEmptyFails(matches) ==
    IF matches.tag # "list" \/ Len(matches.cands) = 0
    THEN [ok |-> FALSE, doi |-> EmptyStr, conf |-> EmptyConfStr, counted |-> FALSE]
    ELSE LET first_match == matches.cands[1] IN
         IF first_match.isdict /\ Truthy(first_match.id)
         THEN [ok |-> TRUE, doi |-> extract_doi_from_url(first_match.id),
               conf |-> IF extract_doi_from_url(first_match.id) = EmptyStr
                        THEN EmptyConfStr
                        ELSE ConfidenceStr(first_match.confidence),
               counted |-> TRUE]
         ELSE [ok |-> TRUE, doi |-> EmptyStr, conf |-> EmptyConfStr, counted |-> FALSE]

\* variant: an exception of the strategy is taken for "no match"
MatchOutcomeSwallowsRaise(matches) ==
    IF matches.tag = "none"
    THEN [ok |-> FALSE, doi |-> EmptyStr, conf |-> EmptyConfStr, counted |-> FALSE]
    ELSE IF Len(matches.cands) = 0
    THEN [ok |-> TRUE, doi |-> EmptyStr, conf |-> EmptyConfStr, counted |-> FALSE]
    ELSE LET first_match == matches.cands[1] IN
         IF first_match.isdict /\ Truthy(first_match.id)
         THEN [ok |-> TRUE, doi |-> extract_doi_from_url(first_match.id),
               conf |-> IF extract_doi_from_url(first_match.id) = EmptyStr
                        THEN EmptyConfStr
                        ELSE ConfidenceStr(first_match.confidence),
               counted |-> TRUE]
         ELSE [ok |-> TRUE, doi |-> EmptyStr, conf |-> EmptyConfStr, counted |-> FALSE]

\* variant: the reported match is the last candidate of the list
MatchOutcomeLastCandidate(matches) ==
    IF matches.tag # "list"
    THEN [ok |-> FALSE, doi |-> EmptyStr, conf |-> EmptyConfStr, counted |-> FALSE]
    ELSE IF Len(matches.cands) = 0
    THEN [ok |-> TRUE, doi |-> EmptyStr, conf |-> EmptyConfStr, counted |-> FALSE]
    ELSE LET first_match == matches.cands[Len(matches.cands)] IN
         IF first_match.isdict /\ Truthy(first_match.id)
         THEN [ok |-> TRUE, doi |-> extract_doi_from_url(first_match.id),
               conf |-> IF extract_doi_from_url(first_match.id) = EmptyStr
                        THEN EmptyConfStr
                        ELSE ConfidenceStr(first_match.confidence),
               counted |-> TRUE]
         ELSE [ok |-> TRUE, doi |-> EmptyStr, conf |-> EmptyConfStr, counted |-> FALSE]

\* lines 251-285: ok = item_processed_successfully, doi = matched_doi_extracted,
\* conf = match_confidence_str, counted = matched_items was incremented
MatchOutcome(matches) ==
    IF matches.tag # "list"
    THEN [ok |-> FALSE, doi |-> EmptyStr, conf |-> EmptyConfStr, counted |-> FALSE]
    ELSE IF Len(matches.cands) > 0
    THEN LET first_match == matches.cands[1] IN
         IF first_match.isdict
         THEN LET matched_doi_url == first_match.id
                  conf == ConfidenceStr(first_match.confidence)
              IN IF Truthy(matched_doi_url)
                 THEN LET matched_doi_extracted == extract_doi_from_url(matched_doi_url) IN
                      [ok |-> TRUE, doi |-> matched_doi_extracted,
                       conf |-> IF matched_doi_extracted = EmptyStr
                                THEN EmptyConfStr ELSE conf,
                       counted |-> TRUE]
                 ELSE [ok |-> TRUE, doi |-> EmptyStr, conf |-> EmptyConfStr,
                       counted |-> FALSE]
         ELSE [ok |-> TRUE, doi |-> EmptyStr, conf |-> EmptyConfStr, counted |-> FALSE]
    ELSE [ok |-> TRUE, doi |-> EmptyStr, conf |-> EmptyConfStr, counted |-> FALSE]

\* lines 288-292
OutputRecord(input_doi_extracted, m) ==
    [input_doi |-> IF ~StartsWithNA(input_doi_extracted) THEN input_doi_extracted
                   ELSE EmptyStr,
     matched_doi |-> m.doi,
     confidence |-> IF m.doi # EmptyStr THEN m.conf ELSE EmptyConfStr]

\* variant: the record carries the first candidate's confidence whether or
\* not a DOI was extracted
RecordOfKeepsConfidence(input_doi_extracted, matches) ==
    [input_doi |-> IF ~StartsWithNA(input_doi_extracted) THEN input_doi_extracted
                   ELSE EmptyStr,
     matched_doi |-> MatchOutcome(matches).doi,
     confidence |-> IF matches.tag = "list" /\ Len(matches.cands) > 0
                       /\ matches.cands[1].isdict
                    THEN ConfidenceStr(matches.cands[1].confidence)
                    ELSE EmptyConfStr]

\* lines 256-292: the output record of an element whose input gave
\* input_doi_extracted and for which the strategy returned matches
RecordOf(input_doi_extracted, matches) ==
    OutputRecord(input_doi_extracted, MatchOutcome(matches))

\* variant: the newest record is put in front
WriteRecordFirst(records, output_record) == <<output_record>> \o records

\* lines 317 and 320: all_results_json.append / csv writerow
WriteRecord(records, output_record) == Append(records, output_record)

\* ------------------------------------------------------------------ state
NoElement == [item |-> [isdict |-> FALSE, input |-> NoInput],
              matches |-> NotCalled, write_ok |-> TRUE]

Init ==
    /\ EvalIdle
    /\ pc = "start"
    /\ format \in {"csv", "json"}
    /\ max_consecutive_line_failures \in 0..MaxThreshold
    /\ max_consecutive_file_failures \in {0, DEFAULT_MAX_CONSECUTIVE_FILE_FAILURES}
    /\ nItems \in 0..MaxItems
    /\ i = 0
    /\ processed_items = 0
    /\ matched_items = 0
    /\ items_with_errors = 0
    /\ consecutive_item_failures = 0
    /\ processing_halted_by_breaker = FALSE
    /\ all_results_json = <<>>
    /\ output_writer = "None"
    /\ outfile = <<>>
    /\ session = "none"
    /\ exit_code = -1
    /\ success = FALSE
    /\ last = NoElement
    /\ trace = <<>>

args == <<format, max_consecutive_line_failures, max_consecutive_file_failures, nItems>>
loopState == <<i, processed_items, matched_items, items_with_errors,
               consecutive_item_failures, processing_halted_by_breaker,
               all_results_json, output_writer, outfile, last, trace>>

\* variant: the breaker trips one failure late
BreakerTripsLate(failures) ==
    max_consecutive_line_failures > 0 /\ failures > max_consecutive_line_failures

\* variant: the breaker test without the "threshold > 0" guard
BreakerTripsUnguarded(failures) == failures >= max_consecutive_line_failures

\* the breaker test of lines 309 and 326
BreakerTrips(failures) ==
    max_consecutive_line_failures > 0 /\ failures >= max_consecutive_line_failures

\* variant: a record is handed to the writer whatever the outcome
ShouldEmitAlways(item_processed_successfully) == TRUE

\* line 315: the record of an element is handed to the writer
ShouldEmit(item_processed_successfully) == item_processed_successfully

\* variant: the dump does not look at the breaker
DumpsJsonAlways == format = "json"

\* line 334: the collected records are dumped to the output file
DumpsJson == format = "json" /\ ~processing_halted_by_breaker

\* ------------------------------------------------------------------ main()
\* lines 370-402: input path and output directory checks, strategy construction
ConstructStrategy(ok) ==
    /\ pc = "start"
    /\ IF ok THEN pc' = "strategy_ready" /\ session' = "open" /\ exit_code' = exit_code
             ELSE pc' = "exited" /\ session' = session /\ exit_code' = 1
    /\ UNCHANGED evalVars
    /\ UNCHANGED <<args, loopState, success>>

\* lines 404-431: load the input file, extract the items
LoadInput(ok) ==
    /\ pc = "strategy_ready"
    /\ IF ~ok THEN pc' = "exited" /\ exit_code' = 1
       ELSE IF nItems = 0 THEN pc' = "exited" /\ exit_code' = 0
       ELSE pc' = "items_ready" /\ exit_code' = exit_code
    /\ UNCHANGED evalVars
    /\ UNCHANGED <<args, loopState, session, success>>

\* lines 199-209 (and 343-362 when the output file cannot be opened)
OpenOutput(ok) ==
    /\ pc = "items_ready"
    /\ IF ok THEN /\ pc' = "loop"
                  /\ items_with_errors' = items_with_errors
                  /\ output_writer' = format
                  /\ success' = success
             ELSE /\ pc' = "returned"
                  /\ items_with_errors' = 1
                  /\ output_writer' = output_writer
                  /\ success' = FALSE
    /\ UNCHANGED evalVars
    /\ UNCHANGED <<args, i, processed_items, matched_items, consecutive_item_failures,
                   processing_halted_by_breaker, all_results_json, outfile, last, trace,
                   session, exit_code>>

\* variant: an element that is not a dict ends the run of failures
SkipItemResets(item) ==
    /\ pc = "loop" /\ i < nItems /\ ~processing_halted_by_breaker
    /\ ~item.isdict
    /\ i' = i + 1
    /\ consecutive_item_failures' = 0
    /\ last' = [item |-> item, matches |-> NotCalled, write_ok |-> TRUE]
    /\ trace' = Append(trace, "skipped")
    /\ UNCHANGED evalVars
    /\ UNCHANGED <<args, pc, processed_items, matched_items, items_with_errors,
                   processing_halted_by_breaker,
                   all_results_json, output_writer, outfile, session, exit_code, success>>

\* lines 211-215: one iteration of the loop over an element that is not a dict
SkipItem(item) ==
    /\ pc = "loop" /\ i < nItems /\ ~processing_halted_by_breaker
    /\ ~item.isdict
    /\ i' = i + 1
    /\ last' = [item |-> item, matches |-> NotCalled, write_ok |-> TRUE]
    /\ trace' = Append(trace, "skipped")
    /\ UNCHANGED evalVars
    /\ UNCHANGED <<args, pc, processed_items, matched_items, items_with_errors,
                   consecutive_item_failures, processing_halted_by_breaker,
                   all_results_json, output_writer, outfile, session, exit_code, success>>

\* lines 211-331: one iteration of the loop over a dict element.
\* matches is what matching_strategy.match returns if it is called,
\* write_ok whether csv writerow succeeds if it is called.
ProcessItem(item, matches, write_ok) ==
    /\ pc = "loop" /\ i < nItems /\ ~processing_halted_by_breaker
    /\ item.isdict
    /\ LET parsed == ParseInput(item)
           called == parsed.ok
           m == IF called THEN MatchOutcome(matches)
                ELSE [ok |-> FALSE, doi |-> EmptyStr, conf |-> EmptyConfStr,
                      counted |-> FALSE]
           item_processed_successfully == parsed.ok /\ m.ok
           output_record == RecordOf(parsed.doi, matches)
           \* finally block, lines 299-307
           errors1 == IF item_processed_successfully THEN items_with_errors
                      ELSE items_with_errors + 1
           failures1 == IF item_processed_successfully THEN 0
                        ELSE consecutive_item_failures + 1
           halted1 == BreakerTrips(failures1)
           \* lines 315-329
           writes == ~halted1 /\ ShouldEmit(item_processed_successfully)
           write_fails == writes /\ format = "csv" /\ ~write_ok
       IN /\ i' = i + 1
          /\ processed_items' = processed_items + 1
          /\ matched_items' = IF called /\ m.counted THEN matched_items + 1
                              ELSE matched_items
          /\ items_with_errors' = IF write_fails THEN errors1 + 1 ELSE errors1
          /\ consecutive_item_failures' = IF write_fails THEN failures1 + 1 ELSE failures1
          /\ processing_halted_by_breaker' =
                (halted1 \/ (write_fails /\ BreakerTrips(failures1 + 1)))
          /\ all_results_json' = IF writes /\ format = "json"
                                 THEN WriteRecord(all_results_json, output_record)
                                 ELSE all_results_json
          /\ outfile' = IF writes /\ format = "csv" /\ write_ok
                        THEN WriteRecord(outfile, output_record)
                        ELSE outfile
          /\ last' = [item |-> item,
                      matches |-> IF called THEN matches ELSE NotCalled,
                      write_ok |-> ~write_fails]
          /\ trace' = Append(trace, IF ~item_processed_successfully THEN "failed"
                                    ELSE IF write_fails THEN "write_failed"
                                    ELSE "ok")
    /\ UNCHANGED evalVars
    /\ UNCHANGED <<args, pc, output_writer, session, exit_code, success>>

\* variant: only a tripped breaker makes the file a failure
ReturnValueBreakerOnly(errors, halted) == ~halted

\* line 362: the value process_match_items returns
ReturnValue(errors, halted) == errors = 0 /\ ~halted

\* lines 334-362: the loop has ended; json dump, summary and return value
FinishLoop(dump_ok) ==
    /\ pc = "loop" /\ (i = nItems \/ processing_halted_by_breaker)
    /\ LET dumps == DumpsJson
           errors == IF dumps /\ ~dump_ok THEN items_with_errors + 1
                     ELSE items_with_errors
       IN /\ items_with_errors' = errors
          /\ outfile' = IF dumps /\ dump_ok THEN all_results_json ELSE outfile
          /\ success' = ReturnValue(errors, processing_halted_by_breaker)
    /\ pc' = "returned"
    /\ UNCHANGED evalVars
    /\ UNCHANGED <<args, i, processed_items, matched_items, consecutive_item_failures,
                   processing_halted_by_breaker, all_results_json, output_writer,
                   last, trace, session, exit_code>>

\* lines 450-464: main after process_match_items has returned
FinishMain ==
    /\ pc = "returned"
    /\ IF ~success
       THEN pc' = "exited" /\ exit_code' = 1 /\ session' = session
       ELSE pc' = "finished" /\ exit_code' = exit_code /\ session' = "closed"
    /\ UNCHANGED evalVars
    /\ UNCHANGED <<args, loopState, success>>

Next ==
    \/ \E ok \in BOOLEAN : ConstructStrategy(ok)
    \/ \E ok \in BOOLEAN : LoadInput(ok)
    \/ \E ok \in BOOLEAN : OpenOutput(ok)
    \/ \E item \in Items : SkipItem(item)
    \/ \E item \in Items, matches \in MatchResults, write_ok \in BOOLEAN :
          ProcessItem(item, matches, write_ok)
    \/ \E dump_ok \in BOOLEAN : FinishLoop(dump_ok)
    \/ FinishMain

Spec == Init /\ [][Next]_vars

\* the same program run on short lists, the strategy returning every kind of
\* candidate
InitRecords ==
    /\ Init
    /\ nItems <= MaxRecordItems
    /\ max_consecutive_file_failures = DEFAULT_MAX_CONSECUTIVE_FILE_FAILURES

NextRecords ==
    \/ \E ok \in BOOLEAN : ConstructStrategy(ok)
    \/ \E ok \in BOOLEAN : LoadInput(ok)
    \/ \E ok \in BOOLEAN : OpenOutput(ok)
    \/ \E item \in Items : SkipItem(item)
    \/ \E item \in Items, matches \in RecordMatchResults, write_ok \in BOOLEAN :
          ProcessItem(item, matches, write_ok)
    \/ \E dump_ok \in BOOLEAN : FinishLoop(dump_ok)
    \/ FinishMain

SpecRecords == InitRecords /\ [][NextRecords]_vars

TypeOK ==
    /\ pc \in {"idle", "start", "strategy_ready", "items_ready", "loop", "returned",
               "exited", "finished"}
    /\ i \in 0..nItems
    /\ session \in {"none", "open", "closed"}
    /\ output_writer \in {"None", "csv", "json"}
    /\ exit_code \in {-1, 0, 1}

\* ------------------------- utils/calculate_precision_recall_f-scores.py
\* the driver is not running
DriverIdle ==
    /\ pc = "idle"
    /\ format = "json"
    /\ max_consecutive_line_failures = DEFAULT_MAX_CONSECUTIVE_LINE_FAILURES
    /\ max_consecutive_file_failures = DEFAULT_MAX_CONSECUTIVE_FILE_FAILURES
    /\ nItems = 0
    /\ i = 0
    /\ processed_items = 0
    /\ matched_items = 0
    /\ items_with_errors = 0
    /\ consecutive_item_failures = 0
    /\ processing_halted_by_breaker = FALSE
    /\ all_results_json = <<>>
    /\ output_writer = "None"
    /\ outfile = <<>>
    /\ session = "none"
    /\ exit_code = -1
    /\ success = FALSE
    /\ last = NoElement
    /\ trace = <<>>

\* str.lower()
Lower(s) == [j \in DOMAIN s |-> LowerTok(s[j])]

\* variant: an existing key keeps its value (dict.setdefault)
PutKeepsFirst(m, k, v) ==
    [x \in DOMAIN m \cup {k} |-> IF x \in DOMAIN m THEN m[x] ELSE v]

\* dict[k] = v
Put(m, k, v) == [x \in DOMAIN m \cup {k} |-> IF x = k THEN v ELSE m[x]]

\* sequences of at most n elements of S
SeqUpTo(S, n) == UNION { [1..k -> S] : k \in 0..n }

\* items of the reference file: 'input' document and 'output' list
RefItem(doc, out) == [input |-> doc, output |-> out]

ReferenceItems ==
    { RefItem(<<"{DOI:10.1/ABC}">>, << <<"https://doi.org/", "10.2/X">> >>),
      RefItem(<<"{DOI:https://doi.org/10.1/ABC}">>, << <<"https://doi.org/", "10.2/X">> >>),
      RefItem(<<"{DOI:doi:10.1/ABC}">>, << <<"10.2/z">> >>),
      RefItem(<<"{DOI:10.1/b}">>, <<>>),
      RefItem(<<"{DOI:10.1/b}">>, << <<"doi:", "10.2/y">>, EmptyStr >>),
      RefItem(<<"[1]">>, <<>>) }

\* records of the results file
ResRecord(in, out) == [input_doi |-> in, matched_doi |-> out]

ResultRecords ==
    { ResRecord(StrId(<<"10.1/ABC">>), StrId(<<"10.2/X">>)),
      ResRecord(StrId(<<"10.1/ABC">>), StrId(EmptyStr)),
      ResRecord(StrId(<<"https://doi.org/", "10.1/ABC">>), StrId(<<"10.2/z">>)),
      ResRecord(StrId(<<"10.1/b">>), StrId(<<"10.2/z">>)),
      ResRecord(StrId(<<"10.1/b">>), StrId(<<" ", "10.2/y">>)) }

\* a file: missing, not JSON, JSON without the required top-level structure,
\* or well-formed with its items
ReferenceFiles ==
    { [kind |-> k, items |-> <<>>] : k \in {"missing", "not_json", "bad_top"} }
    \cup { [kind |-> "ok", items |-> its] : its \in SeqUpTo(ReferenceItems, MaxEvalRecords) }

ResultsFiles ==
    { [kind |-> k, items |-> <<>>] : k \in {"missing", "not_json", "bad_top"} }
    \cup { [kind |-> "ok", items |-> its] : its \in SeqUpTo(ResultRecords, MaxEvalRecords) }

\* lines 58-64: the reference set of an item's 'output' list
ValidDoiSet(related_dois_list) ==
    { Lower(Strip(Replace(Replace(related_dois_list[j], "https://doi.org/"), "doi:"))) :
        j \in { x \in DOMAIN related_dois_list :
                  /\ related_dois_list[x] # EmptyStr
                  /\ Strip(Replace(Replace(related_dois_list[x], "https://doi.org/"),
                                   "doi:")) # EmptyStr } }

\* lines 47-72: the loop over the items, from item j on
RECURSIVE ReferenceLoop(_, _, _)
ReferenceLoop(items, j, reference_dict) ==
    IF j > Len(items) THEN SomeMap(reference_dict)
    ELSE LET input_data == JsonLoads(items[j].input) IN
         IF ~input_data.ok THEN ReferenceLoop(items, j + 1, reference_dict)
         ELSE IF ~input_data.isdict THEN NoneMap       \* AttributeError, line 77
         ELSE IF ~Truthy(input_data.doi) THEN ReferenceLoop(items, j + 1, reference_dict)
         ELSE LET source_doi == Lower(Strip(input_data.doi.text)) IN
              IF source_doi # EmptyStr
              THEN ReferenceLoop(items, j + 1,
                                 Put(reference_dict, source_doi,
                                     ValidDoiSet(items[j].output)))
              ELSE ReferenceLoop(items, j + 1, reference_dict)

\* lines 37-81
load_reference_from_json(file) ==
    IF file.kind # "ok" THEN NoneMap ELSE ReferenceLoop(file.items, 1, <<>>)

\* lines 94-100: the loop over the records, from record j on
RECURSIVE ResultsLoop(_, _, _)
ResultsLoop(data, j, results_dict) ==
    IF j > Len(data) THEN SomeMap(results_dict)
    ELSE LET key == data[j].input_doi
             value == data[j].matched_doi
         IN IF Truthy(key)
            THEN ResultsLoop(data, j + 1,
                             Put(results_dict, Lower(Strip(key.text)),
                                 IF Truthy(value) THEN StrId(Lower(Strip(value.text)))
                                 ELSE NoneId))
            ELSE ResultsLoop(data, j + 1, results_dict)

\* variant: a results file whose top level is not a list reads as no records
load_results_from_json_lenient(file) ==
    IF file.kind \in {"missing", "not_json"} THEN NoneMap
    ELSE ResultsLoop(file.items, 1, <<>>)

\* lines 84-110
load_results_from_json(file) ==
    IF file.kind # "ok" THEN NoneMap ELSE ResultsLoop(file.items, 1, <<>>)

\* arithmetic on rationals
IsZero(a) == a.n = 0
FMul(a, b) == Frac(a.n * b.n, a.d * b.d)
FAdd(a, b) == Frac(a.n * b.d + b.n * a.d, a.d * b.d)
FEq(a, b) == a.n * b.d = b.n * a.d

\* a / b; Python raises ZeroDivisionError when b = 0
Divide(a, b) ==
    IF IsZero(b) THEN [tag |-> "ZeroDivisionError", val |-> Frac(0, 1)]
    ELSE [tag |-> "ok", val |-> Frac(a.n * b.d, a.d * b.n)]

Returns(v) == [tag |-> "ok", val |-> v]

\* variant: the function without its two zero tests
calculate_f_beta_unguarded(precision, recall, beta) ==
    IF beta.n <= 0 THEN [tag |-> "ValueError", val |-> Frac(0, 1)]
    ELSE Divide(FMul(FAdd(Frac(1, 1), FMul(beta, beta)), FMul(precision, recall)),
                FAdd(FMul(FMul(beta, beta), precision), recall))

\* lines 113-125
calculate_f_beta(precision, recall, beta) ==
    IF IsZero(precision) /\ IsZero(recall) THEN Returns(Frac(0, 1))
    ELSE IF beta.n <= 0 THEN [tag |-> "ValueError", val |-> Frac(0, 1)]
    ELSE LET beta_sq == FMul(beta, beta)
             numerator == FMul(FAdd(Frac(1, 1), beta_sq), FMul(precision, recall))
             denominator == FAdd(FMul(beta_sq, precision), recall)
         IN IF IsZero(denominator) THEN Returns(Frac(0, 1))
            ELSE Divide(numerator, denominator)

\* dict.get(k), None when k is absent
GetPrediction(test_map, k) == IF k \in DOMAIN test_map THEN test_map[k] ELSE NoneId

\* variant: every entry of the reference counts, also one with an empty set
PositiveReferencesAll(reference_map) == DOMAIN reference_map

\* line 134: the keys of positive_references
PositiveReferences(reference_map) ==
    { k \in DOMAIN reference_map : reference_map[k] # {} }

\* variant: a wrong prediction for an input with reference matches is a miss
ClassifyWrongAsFN(reference_map, test_map, input_doi) ==
    LET k == Lower(Strip(input_doi))
        pred == GetPrediction(test_map, k)
        refs == IF k \in PositiveReferences(reference_map) THEN reference_map[k] ELSE {}
    IN IF Truthy(pred) /\ refs # {} THEN (IF pred.text \in refs THEN "TP" ELSE "FN")
       ELSE IF Truthy(pred) THEN "FP"
       ELSE IF refs # {} THEN "FN" ELSE ""

\* variant: a prediction for an input without reference matches is not counted
ClassifyIgnoresUnreferenced(reference_map, test_map, input_doi) ==
    LET k == Lower(Strip(input_doi))
        pred == GetPrediction(test_map, k)
        refs == IF k \in PositiveReferences(reference_map) THEN reference_map[k] ELSE {}
    IN IF Truthy(pred) /\ refs # {} THEN (IF pred.text \in refs THEN "TP" ELSE "FP")
       ELSE IF refs # {} THEN "FN" ELSE ""

\* lines 141-172: the status of one input DOI
Classify(reference_map, test_map, input_doi) ==
    LET input_doi_norm == Lower(Strip(input_doi))
        predicted_match == GetPrediction(test_map, input_doi_norm)
        is_positive_prediction == Truthy(predicted_match)
        is_in_ref == input_doi_norm \in PositiveReferences(reference_map)
    IN IF is_positive_prediction
       THEN IF is_in_ref
            THEN IF predicted_match.text \in reference_map[input_doi_norm]
                 THEN "TP" ELSE "FP"
            ELSE "FP"
       ELSE IF is_in_ref THEN "FN" ELSE ""

\* variant: every entry of the results counts, also one without a prediction
PositivePredictionsAll(test_map, all_input_dois) ==
    { k \in all_input_dois : Lower(Strip(k)) \in DOMAIN test_map }

\* lines 137-158: the inputs counted in positive_predictions
PositivePredictions(test_map, all_input_dois) ==
    { k \in all_input_dois : Truthy(GetPrediction(test_map, Lower(Strip(k)))) }

\* lines 177-178: tp / total if total > 0 else 0.0
Ratio(tp, total) == IF total > 0 THEN Frac(tp, total) ELSE Frac(0, 1)

\* lines 128-197
calculate_metrics(reference_map, test_map) ==
    LET num_positive_references == Cardinality(PositiveReferences(reference_map))
        all_input_dois == DOMAIN reference_map \cup DOMAIN test_map
        Status(k) == Classify(reference_map, test_map, k)
        tp == Cardinality({ k \in all_input_dois : Status(k) = "TP" })
        fp == Cardinality({ k \in all_input_dois : Status(k) = "FP" })
        fn == Cardinality({ k \in all_input_dois : Status(k) = "FN" })
        positive_predictions == Cardinality(PositivePredictions(test_map, all_input_dois))
        precision == Ratio(tp, positive_predictions)
        recall == Ratio(tp, num_positive_references)
    IN [computed |-> TRUE,
        TP |-> tp, FP |-> fp, FN |-> fn,
        Precision |-> precision, Recall |-> recall,
        F0_5 |-> calculate_f_beta(precision, recall, Frac(1, 2)),
        F1 |-> calculate_f_beta(precision, recall, Frac(1, 1)),
        F1_5 |-> calculate_f_beta(precision, recall, Frac(3, 2)),
        PositiveReferences |-> num_positive_references,
        PositivePredictions |-> positive_predictions,
        detailed_results |->
            { [input_doi |-> Lower(Strip(k)), status |-> Status(k)] :
                k \in { x \in all_input_dois : Status(x) # "" } }]

\* the values of beta used by calculate_metrics, lines 180-182
Betas == { Frac(1, 2), Frac(1, 1), Frac(3, 2) }

\* precision and recall values: the rationals n/d of [0, 1]
UnitFractions ==
    { f \in { Frac(n, d) : n \in 0..MaxDenominator, d \in 1..MaxDenominator } :
        f.n <= f.d }

InitEval ==
    /\ DriverIdle
    /\ epc = "start"
    /\ json_output \in BOOLEAN
    /\ test_data_json \in ReferenceFiles
    /\ results_json \in ResultsFiles
    /\ reference_data = NoneMap
    /\ test_data = NoneMap
    /\ metrics = NoMetrics
    /\ report = "none"
    /\ eval_exit = -1
    /\ fbeta_args = NoFBetaArgs
    /\ fbeta_result = NoFBetaResult

\* main, lines 238-246
LoadReference ==
    /\ epc = "start"
    /\ reference_data' = load_reference_from_json(test_data_json)
    /\ IF reference_data'.ok
       THEN epc' = "reference_loaded" /\ report' = report /\ eval_exit' = eval_exit
       ELSE /\ epc' = "exited"
            /\ report' = IF json_output THEN "stdout_json_error" ELSE "stderr_error"
            /\ eval_exit' = 1
    /\ UNCHANGED <<json_output, test_data_json, results_json, test_data, metrics,
                   fbeta_args, fbeta_result>>
    /\ UNCHANGED driverVars

\* main, lines 248-259
LoadResults ==
    /\ epc = "reference_loaded"
    /\ test_data' = load_results_from_json(results_json)
    /\ IF test_data'.ok
       THEN epc' = "results_loaded" /\ report' = report /\ eval_exit' = eval_exit
       ELSE /\ epc' = "exited"
            /\ report' = IF json_output THEN "stdout_json_error" ELSE "stderr_error"
            /\ eval_exit' = 1
    /\ UNCHANGED <<json_output, test_data_json, results_json, reference_data, metrics,
                   fbeta_args, fbeta_result>>
    /\ UNCHANGED driverVars

\* main, lines 261-287
CalculateMetrics ==
    /\ epc = "results_loaded"
    /\ metrics' = calculate_metrics(reference_data.map, test_data.map)
    /\ report' = IF json_output THEN "stdout_json_metrics" ELSE "stdout_text_metrics"
    /\ epc' = "done"
    /\ UNCHANGED <<json_output, test_data_json, results_json, reference_data, test_data,
                   eval_exit, fbeta_args, fbeta_result>>
    /\ UNCHANGED driverVars

NextEval == LoadReference \/ LoadResults \/ CalculateMetrics

SpecEval == InitEval /\ [][NextEval]_vars

\* calculate_f_beta applied to arbitrary precision and recall values
InitFBeta ==
    /\ DriverIdle
    /\ epc = "fbeta_call"
    /\ json_output = FALSE
    /\ test_data_json = NoFile
    /\ results_json = NoFile
    /\ reference_data = NoneMap
    /\ test_data = NoneMap
    /\ metrics = NoMetrics
    /\ report = "none"
    /\ eval_exit = -1
    /\ fbeta_args \in [precision : UnitFractions, recall : UnitFractions, beta : Betas]
    /\ fbeta_result = NoFBetaResult

CallFBeta ==
    /\ epc = "fbeta_call"
    /\ fbeta_result' = calculate_f_beta(fbeta_args.precision, fbeta_args.recall,
                                        fbeta_args.beta)
    /\ epc' = "fbeta_returned"
    /\ UNCHANGED <<json_output, test_data_json, results_json, reference_data, test_data,
                   metrics, report, eval_exit, fbeta_args>>
    /\ UNCHANGED driverVars

NextFBeta == CallFBeta

SpecFBeta == InitFBeta /\ [][NextFBeta]_vars

\* ------------------------------------------------ vocabulary of the claims
\* the loop has ended and process_match_items has returned
Returned == pc \in {"returned", "exited", "finished"}

\* the records handed to the output writer so far
Emitted == IF format = "json" THEN all_results_json ELSE outfile

\* number of elements with outcome v
CountOf(t, v) == Cardinality({p \in DOMAIN t : t[p] = v})

\* length of the run of failed elements that ends the sequence t; elements
\* that are not dictionaries are not items and do not interrupt the run
RECURSIVE TrailingFailures(_)
TrailingFailures(t) ==
    IF t = <<>> THEN 0
    ELSE LET front == SubSeq(t, 1, Len(t) - 1) IN
         IF t[Len(t)] = "skipped" THEN TrailingFailures(front)
         ELSE IF t[Len(t)] = "failed" THEN 1 + TrailingFailures(front)
         ELSE 0

\* length of the run of elements ending t whose csv row could not be written
RECURSIVE TrailingWriteFailures(_)
TrailingWriteFailures(t) ==
    IF t = <<>> THEN 0
    ELSE IF t[Len(t)] = "write_failed"
         THEN 1 + TrailingWriteFailures(SubSeq(t, 1, Len(t) - 1))
         ELSE 0

LastOutcome == trace[Len(trace)]

\* dict elements whose input cannot be parsed: missing 'input', JSON decode
\* error, parsed payload not an object
InputErrors ==
    { [isdict |-> TRUE, input |-> NoInput],
      [isdict |-> TRUE, input |-> StrInput(<<"{bad">>)],
      [isdict |-> TRUE, input |-> StrInput(<<"[1]">>)] }

\* the element whose parsed input is an object without 'DOI'
MissingDoiItem == [isdict |-> TRUE, input |-> StrInput(<<"{}">>)]

\* the run was ended by sys.exit(1) because the file was reported failed
FileFailedExit ==
    pc = "exited" /\ exit_code = 1
    /\ (items_with_errors > 0 \/ processing_halted_by_breaker)

\* the number of consecutive failed files when the run ends: main processes
\* exactly one file
ConsecutiveFileFailures == IF FileFailedExit THEN 1 ELSE 0

\* ------------------------------------------------------------------ claims

\* C1: with threshold k > 0, as soon as k items have failed consecutively the
\* loop is halted and no further element is visited (no prefix of the run of
\* outcomes other than the whole run ends in k failures); an item that
\* succeeds leaves the consecutive-failure counter at 0.
C1_BreakerHaltsAtK ==
    /\ max_consecutive_line_failures > 0 =>
         \A p \in 1..Len(trace) :
            TrailingFailures(SubSeq(trace, 1, p)) >= max_consecutive_line_failures
               => /\ p = Len(trace)
                  /\ trace[p] = "failed"
                  /\ processing_halted_by_breaker
                  /\ i = p
                  /\ processed_items = p - CountOf(trace, "skipped")
    /\ (trace # <<>> /\ LastOutcome = "ok") => consecutive_item_failures = 0

C1_Witness ==
    /\ max_consecutive_line_failures = 2
    /\ trace = <<"failed", "failed">>
    /\ nItems = 3
    /\ Returned
    /\ processing_halted_by_breaker

\* C2: when the strategy returns an empty candidate list the item is a
\* success, never a failure: a record with empty matched_doi is handed to the
\* writer and the consecutive-failure counter is reset to 0 (when writing the
\* csv row then fails the counter is 1, counted from the reset).
C2_NoMatchIsSuccess ==
    (trace # <<>> /\ last.matches = Matches(<<>>)) =>
        /\ LastOutcome # "failed"
        /\ last.write_ok =>
              /\ LastOutcome = "ok"
              /\ consecutive_item_failures = 0
              /\ Len(Emitted) = CountOf(trace, "ok")
              /\ Len(Emitted) > 0
              /\ Emitted[Len(Emitted)].matched_doi = EmptyStr
        /\ ~last.write_ok => consecutive_item_failures = 1

C2_Witness ==
    /\ Len(trace) >= 2
    /\ last.matches = Matches(<<>>)
    /\ trace[Len(trace) - 1] = "failed"
    /\ LastOutcome = "ok"
    /\ consecutive_item_failures = 0

\* C3: an item whose input cannot be parsed, or for which the strategy returns
\* the hard-failure signal, increments the consecutive-failure counter by
\* exactly one and produces no output record.
C3_FailureCountsOnce ==
    [][ (i' = i + 1 /\ (last'.item \in InputErrors \/ last'.matches = HardFailure))
        => /\ consecutive_item_failures' = consecutive_item_failures + 1
           /\ items_with_errors' = items_with_errors + 1
           /\ trace' = Append(trace, "failed")
           /\ all_results_json' = all_results_json
           /\ outfile' = outfile
           /\ matched_items' = matched_items ]_vars

C3_Witness ==
    /\ last.matches = HardFailure
    /\ consecutive_item_failures = 3
    /\ Len(trace) = 3
    /\ trace[1] = "failed" /\ trace[2] = "failed"

\* C4: for every threshold k > 0, k consecutive items whose csv row cannot be
\* written bring the consecutive-failure counter to k and halt the file.
C4_WriteFailuresTripBreaker ==
    (/\ format = "csv"
     /\ max_consecutive_line_failures > 0
     /\ TrailingWriteFailures(trace) >= max_consecutive_line_failures)
    => /\ processing_halted_by_breaker
       /\ consecutive_item_failures = max_consecutive_line_failures

\* C5 (as stated): when the item breaker has halted the file, the output file
\* holds the records of all items processed successfully before the halt, in
\* the csv and in the json format.
C5_Original ==
    (Returned /\ processing_halted_by_breaker) =>
        Len(outfile) = CountOf(trace, "ok")

\* C5 (amended): when the item breaker has halted the file, the csv output
\* file holds the rows of all items processed successfully before the halt;
\* in the json format the collected records are kept in memory only and the
\* output file is left empty.
C5_HaltKeepsCsvRowsOnly ==
    (Returned /\ processing_halted_by_breaker) =>
        /\ format = "csv" => Len(outfile) = CountOf(trace, "ok")
        /\ format = "json" => /\ outfile = <<>>
                              /\ Len(all_results_json) = CountOf(trace, "ok")

C5_Witness ==
    /\ Returned
    /\ processing_halted_by_breaker
    /\ format = "json"
    /\ Len(all_results_json) = 2
    /\ outfile = <<>>

\* C6: the run is halted because of file failures only when the
\* consecutive-file-failure counter has reached max_consecutive_file_failures
\* (> 0); with max_consecutive_file_failures = 0 a failed file never halts it.
C6_FileBreakerThreshold ==
    FileFailedExit =>
        /\ max_consecutive_file_failures > 0
        /\ ConsecutiveFileFailures >= max_consecutive_file_failures

\* C7: once acquired, the strategy's session is closed on every exit path of
\* the run: normal completion, file reported failed, item breaker halted.
C7_SessionClosedOnExit ==
    (pc = "finished" \/ FileFailedExit) => session = "closed"

\* C8: with max_consecutive_line_failures = 0 the breaker never halts the
\* loop, and once the output is open every element of the list is visited.
C8_ZeroDisablesBreaker ==
    max_consecutive_line_failures = 0 =>
        /\ ~processing_halted_by_breaker
        /\ (Returned /\ output_writer # "None") =>
              /\ i = nItems
              /\ Len(trace) = nItems
              /\ processed_items = nItems - CountOf(trace, "skipped")

C8_Witness ==
    /\ max_consecutive_line_failures = 0
    /\ Returned
    /\ nItems = 3
    /\ trace = <<"failed", "failed", "failed">>
    /\ consecutive_item_failures = 3

\* C9 (as stated): an item whose parsed input has no DOI is counted as an item
\* failure.
C9_Original ==
    (trace # <<>> /\ last.item = MissingDoiItem) =>
        /\ LastOutcome = "failed"
        /\ consecutive_item_failures > 0

\* C9 (amended): an item whose parsed input has no DOI is not an input error:
\* its input is passed to the strategy, it fails only when the strategy
\* reports hard failure or raises, and otherwise it is a success whose record
\* has an empty input_doi and which resets the counter (1 after a failed csv
\* write).
C9_MissingDoiIsMatched ==
    (trace # <<>> /\ last.item = MissingDoiItem) =>
        /\ last.matches # NotCalled
        /\ LastOutcome = "failed" <=> last.matches \in {HardFailure, Raises}
        /\ LastOutcome = "ok" =>
              /\ consecutive_item_failures = 0
              /\ Len(Emitted) > 0
              /\ Emitted[Len(Emitted)].input_doi = EmptyStr
        /\ LastOutcome = "write_failed" => consecutive_item_failures = 1

C9_Witness ==
    /\ Len(trace) >= 2
    /\ last.item = MissingDoiItem
    /\ trace[Len(trace) - 1] = "failed"
    /\ LastOutcome = "ok"
    /\ consecutive_item_failures = 0

\* C10 (as stated): one output record is emitted per item processed; an item
\* with an input error is emitted as a record with empty matched_doi and
\* empty confidence.
C10_Original ==
    (trace # <<>> /\ last.item \in InputErrors) =>
        /\ Len(Emitted) = processed_items
        /\ Len(Emitted) > 0
        /\ Emitted[Len(Emitted)].matched_doi = EmptyStr
        /\ Emitted[Len(Emitted)].confidence = EmptyConfStr

\* C10 (amended): at most one output record is emitted per item processed:
\* exactly one for every item that succeeded and whose row was written, none
\* for an item that failed; an item with an input error is a failed item and
\* is omitted from the output.
C10_RecordsOnlyForSuccesses ==
    /\ Len(Emitted) = CountOf(trace, "ok")
    /\ processed_items = Len(trace) - CountOf(trace, "skipped")
    /\ Len(Emitted) <= processed_items
    /\ (trace # <<>> /\ last.item \in InputErrors) => LastOutcome = "failed"

C10_Witness ==
    /\ trace = <<"ok", "failed">>
    /\ last.item \in InputErrors
    /\ processed_items = 2
    /\ Len(Emitted) = 1

\* the record handed to the writer by the latest iteration
LastRecord == Emitted[Len(Emitted)]

\* the first candidate of the latest strategy result
FirstCandidate == last.matches.cands[1]

\* the latest iteration called the strategy and got a list with a candidate
GotCandidates == last.matches.tag = "list" /\ Len(last.matches.cands) > 0

\* C11: an unexpected exception inside the per-item pipeline (json.loads of
\* an input that is not a str, an exception of strategy.match) is caught and
\* counted as exactly one item failure; process_match_items does not leave the
\* loop because of it, and the next item is processed unless the breaker trips.
C11_ExceptionIsOneFailure ==
    [][ (i' = i + 1
         /\ (last'.matches = Raises
             \/ last'.item = [isdict |-> TRUE, input |-> IntInput]))
        => /\ consecutive_item_failures' = consecutive_item_failures + 1
           /\ items_with_errors' = items_with_errors + 1
           /\ processed_items' = processed_items + 1
           /\ trace' = Append(trace, "failed")
           /\ pc' = "loop"
           /\ processing_halted_by_breaker' =
                 (max_consecutive_line_failures > 0
                  /\ consecutive_item_failures' >= max_consecutive_line_failures)
           /\ UNCHANGED <<all_results_json, outfile, success, exit_code>> ]_vars

C11_Witness ==
    /\ last.matches = Raises
    /\ Len(trace) = 2
    /\ trace[1] = "failed"
    /\ consecutive_item_failures = 2
    /\ ~processing_halted_by_breaker
    /\ pc = "loop"
    /\ i < nItems

\* C12 (as stated): every emitted record with a non-empty matched_doi carries
\* a confidence that is a non-empty formatted number, whatever candidate the
\* strategy returned first.
C12_Original ==
    \A p \in 1..Len(Emitted) :
        Emitted[p].matched_doi # EmptyStr => Emitted[p].confidence.kind = "number"

\* C12 (amended): an emitted record with a non-empty matched_doi carries the
\* text of the first candidate's confidence: the number rounded to 4 decimals
\* when the confidence is an int or float, the str() of the value when it is
\* of another type, and the empty string when the candidate has none.
C12_ConfidenceOfFirstCandidate ==
    (trace # <<>> /\ LastOutcome = "ok" /\ GotCandidates
     /\ LastRecord.matched_doi # EmptyStr) =>
        LET c == FirstCandidate.confidence
            text == LastRecord.confidence
        IN /\ c.type = "num" =>
                 /\ text.kind = "number"
                 /\ 10 * text.val - 5 <= c.val
                 /\ c.val < 10 * text.val + 5
           /\ c.type = "str" => text.kind = "text"
           /\ c.type = "none" => text = EmptyConfStr

C12_Witness ==
    /\ trace # <<>> /\ LastOutcome = "ok" /\ GotCandidates
    /\ LastRecord.matched_doi = <<"10.2/x">>
    /\ FirstCandidate.confidence = StrConf
    /\ LastRecord.confidence = TextConfStr

\* C13: every emitted record with an empty matched_doi has an empty
\* confidence, also when the first candidate carried a confidence.
C13_EmptyDoiEmptyConfidence ==
    \A p \in 1..Len(Emitted) :
        Emitted[p].matched_doi = EmptyStr => Emitted[p].confidence = EmptyConfStr

C13_Witness ==
    /\ trace # <<>> /\ LastOutcome = "ok" /\ GotCandidates
    /\ FirstCandidate = Cand(StrId(<<"http://example.org/", "abc">>), NumConf(90000))
    /\ LastRecord.matched_doi = EmptyStr
    /\ LastRecord.confidence = EmptyConfStr

\* C14: the matched_doi and the confidence of an item's record come from the
\* first candidate of the returned list only; a further candidate does not
\* change them.
C14_OnlyFirstCandidate ==
    (trace # <<>> /\ LastOutcome = "ok" /\ GotCandidates) =>
        /\ LastRecord.matched_doi =
              IF FirstCandidate.isdict THEN extract_doi_from_url(FirstCandidate.id)
              ELSE EmptyStr
        /\ LastRecord.matched_doi # EmptyStr =>
              LastRecord.confidence = ConfidenceStr(FirstCandidate.confidence)
        /\ LastRecord.matched_doi = EmptyStr =>
              LastRecord.confidence = EmptyConfStr

C14_Witness ==
    /\ trace # <<>> /\ LastOutcome = "ok"
    /\ last.matches.tag = "list" /\ Len(last.matches.cands) = 2
    /\ last.matches.cands[2].id = StrId(<<"10.2/y">>)
    /\ LastRecord.matched_doi = <<"10.2/x">>
    /\ LastRecord.confidence = [kind |-> "number", val |-> 8765]

\* C15: the elements are visited one at a time in list order, each once, and
\* the record of an item is put behind the records of all earlier items.
C15_SequentialInOrder ==
    [][ /\ i' \in {i, i + 1}
        /\ i' = Len(trace')
        /\ i' = i + 1 =>
              /\ SubSeq(trace', 1, i) = trace
              /\ processed_items' \in {processed_items, processed_items + 1}
              /\ trace'[i'] = "ok" =>
                    Emitted' = Append(Emitted,
                                      OutputRecord(ParseInput(last'.item).doi,
                                                   MatchOutcome(last'.matches)))
              /\ trace'[i'] # "ok" => Emitted' = Emitted
        /\ i' = i => Emitted' = Emitted ]_vars

C15_Witness ==
    /\ Len(Emitted) = 2
    /\ Emitted[1].matched_doi = <<"10.2/x">>
    /\ Emitted[2].matched_doi = EmptyStr
    /\ trace = <<"ok", "failed", "ok">>

\* ---------------------------------------------- claims on the evaluation tool
\* the maps the metrics were computed from
RefMap == reference_data.map
TestMap == test_data.map
InputDois == DOMAIN RefMap \cup DOMAIN TestMap

\* a non-empty prediction exists for input k
HasPrediction(k) ==
    k \in DOMAIN TestMap /\ TestMap[k].type = "str" /\ TestMap[k].text # EmptyStr

\* the reference set of input k, empty when k is not in the reference
ReferenceSet(k) == IF k \in DOMAIN RefMap THEN RefMap[k] ELSE {}

\* inputs with a non-empty reference set and a prediction outside it
WrongOnPositive ==
    { k \in InputDois :
        HasPrediction(k) /\ ReferenceSet(k) # {} /\ TestMap[k].text \notin ReferenceSet(k) }

\* C16: every distinct input DOI of reference and results is classified at
\* most once: TP when a prediction exists and is in the reference set, FP when
\* a prediction exists and is not in the reference set (or that set is empty
\* or absent), FN when no prediction exists and the reference set is not
\* empty, and not at all otherwise.
C16_Classification ==
    metrics.computed =>
        /\ metrics.TP = Cardinality({ k \in InputDois :
                HasPrediction(k) /\ TestMap[k].text \in ReferenceSet(k) })
        /\ metrics.FP = Cardinality({ k \in InputDois :
                HasPrediction(k) /\ TestMap[k].text \notin ReferenceSet(k) })
        /\ metrics.FN = Cardinality({ k \in InputDois :
                ~HasPrediction(k) /\ ReferenceSet(k) # {} })
        /\ metrics.TP + metrics.FP + metrics.FN <= Cardinality(InputDois)
        /\ Cardinality(metrics.detailed_results)
              = metrics.TP + metrics.FP + metrics.FN
        /\ \A k \in InputDois :
              Cardinality({ r \in metrics.detailed_results : r.input_doi = k }) <= 1

C16_Witness ==
    /\ metrics.computed
    /\ RefMap = (<<"10.1/abc">> :> {<<"10.2/x">>}) @@ (<<"10.1/b">> :> {})
    /\ TestMap = (<<"10.1/abc">> :> StrId(<<"10.2/x">>))
                 @@ (<<"10.1/b">> :> StrId(<<"10.2/z">>))
    /\ metrics.TP = 1 /\ metrics.FP = 1 /\ metrics.FN = 0

\* C17 (as stated): the reported Recall equals TP/(TP+FN) of the reported
\* counts, and is 0 when no input has a non-empty reference set.
C17_Original ==
    metrics.computed =>
        /\ metrics.TP + metrics.FN > 0 =>
              FEq(metrics.Recall, Frac(metrics.TP, metrics.TP + metrics.FN))
        /\ (\A k \in DOMAIN RefMap : RefMap[k] = {}) => IsZero(metrics.Recall)

\* C17 (amended): the reported Recall equals TP divided by the number of
\* inputs with a non-empty reference set (0 when there is none); that number
\* is TP + FN plus the inputs with a non-empty reference set whose prediction
\* is wrong, which are counted as FP and not as FN.
C17_RecallOverPositiveReferences ==
    metrics.computed =>
        LET positives == { k \in DOMAIN RefMap : RefMap[k] # {} } IN
        /\ metrics.PositiveReferences = Cardinality(positives)
        /\ Cardinality(positives)
              = metrics.TP + metrics.FN + Cardinality(WrongOnPositive)
        /\ positives # {} =>
              FEq(metrics.Recall, Frac(metrics.TP, Cardinality(positives)))
        /\ positives = {} => IsZero(metrics.Recall)

C17_Witness ==
    /\ metrics.computed
    /\ metrics.TP = 1 /\ metrics.FN = 0
    /\ Cardinality(WrongOnPositive) = 1
    /\ metrics.Recall = Frac(1, 2)

\* C18: the reported Precision equals TP/(TP+FP) of the reported counts,
\* TP+FP being the number of inputs with a non-empty prediction, and is 0
\* when there is no such input.
C18_Precision ==
    metrics.computed =>
        LET predicted == { k \in InputDois : HasPrediction(k) } IN
        /\ metrics.TP + metrics.FP = Cardinality(predicted)
        /\ metrics.PositivePredictions = Cardinality(predicted)
        /\ predicted # {} =>
              FEq(metrics.Precision, Frac(metrics.TP, metrics.TP + metrics.FP))
        /\ predicted = {} => IsZero(metrics.Precision)

C18_Witness ==
    /\ metrics.computed
    /\ metrics.TP = 1 /\ metrics.FP = 1
    /\ metrics.PositivePredictions = 2
    /\ metrics.Precision = Frac(1, 2)
    /\ WrongOnPositive = {}

\* C19: an input DOI written "https://doi.org/10.1/ABC", "doi:10.1/ABC" or
\* "10.1/ABC" gets the key "10.1/abc" in the maps built by
\* load_reference_from_json and load_results_from_json (the inputs used here
\* are forms of 10.1/ABC and 10.1/b only).
C19_KeysNormalized ==
    \A k \in InputDois : k \in { <<"10.1/abc">>, <<"10.1/b">> }

\* C20: calculate_f_beta returns (1+beta^2)*P*R / (beta^2*P + R) for beta in
\* {0.5, 1.0, 1.5} and P, R in [0, 1], and returns 0 when P = R = 0; it never
\* divides by zero.  With P = p/q, R = r/s and beta = b/c the quotient is
\* (c^2+b^2)*p*r / (b^2*p*s + c^2*q*r).
C20_FBeta ==
    epc = "fbeta_returned" =>
        LET p == fbeta_args.precision.n
            q == fbeta_args.precision.d
            r == fbeta_args.recall.n
            s == fbeta_args.recall.d
            b == fbeta_args.beta.n
            c == fbeta_args.beta.d
        IN /\ fbeta_result.tag = "ok"
           /\ fbeta_result.val.d # 0
           /\ (p = 0 /\ r = 0) => IsZero(fbeta_result.val)
           /\ (p # 0 \/ r # 0) =>
                 /\ b * b * p * s + c * c * q * r # 0
                 /\ FEq(fbeta_result.val,
                        Frac((c * c + b * b) * p * r, b * b * p * s + c * c * q * r))

C20_Witness ==
    /\ epc = "fbeta_returned"
    /\ fbeta_args = [precision |-> Frac(1, 2), recall |-> Frac(1, 1), beta |-> Frac(1, 1)]
    /\ fbeta_result.tag = "ok"
    /\ FEq(fbeta_result.val, Frac(2, 3))

\* the reference file cannot be loaded: missing, not JSON, without a top-level
\* 'items' list, or with an item whose 'input' is JSON but not an object
ReferenceUnusable ==
    \/ test_data_json.kind # "ok"
    \/ \E j \in DOMAIN test_data_json.items :
          LET input_data == JsonLoads(test_data_json.items[j].input)
          IN input_data.ok /\ ~input_data.isdict

\* the results file cannot be loaded: missing, not JSON or not a top-level list
ResultsUnusable == results_json.kind # "ok"

\* the tool ended at start-up with status 1, the error reported on stderr or,
\* with --json-output, as a JSON error object, and no metrics computed
StartupFailure ==
    /\ epc = "exited"
    /\ eval_exit = 1
    /\ metrics = NoMetrics
    /\ report = IF json_output THEN "stdout_json_error" ELSE "stderr_error"

\* C21: when the reference file or the results file is missing or malformed,
\* the tool computes no metrics and terminates with a failure status, the
\* error reported on the error channel or, with --json-output, as a JSON
\* error object; metrics are computed only from two loadable files.
C21_BadFileIsStartupError ==
    /\ (epc \in {"reference_loaded", "results_loaded", "done", "exited"}
          /\ ReferenceUnusable) => StartupFailure
    /\ (epc \in {"results_loaded", "done", "exited"} /\ ResultsUnusable)
          => StartupFailure
    /\ (metrics.computed \/ epc = "done")
          => ~ReferenceUnusable /\ ~ResultsUnusable /\ eval_exit # 1

C21_Witness ==
    /\ ~ReferenceUnusable /\ reference_data.ok
    /\ results_json.kind = "bad_top"
    /\ json_output
    /\ StartupFailure

\* process_match_items was called and has returned
ProcessReturned ==
    \/ pc \in {"returned", "finished"}
    \/ pc = "exited" /\ (items_with_errors > 0 \/ output_writer # "None")

\* number of items that failed: input, strategy, or the write of the csv row
ItemFailures == CountOf(trace, "failed") + CountOf(trace, "write_failed")

\* an error on the output file as a whole: it could not be opened, or the
\* json dump of the collected records failed
OutputFileError == items_with_errors > ItemFailures

\* C22 as stated: the file is reported successful if and only if no item
\* failed and the breaker did not trip.
C22_Original ==
    ProcessReturned =>
        (success <=> (ItemFailures = 0 /\ ~processing_halted_by_breaker))

\* C22: process_match_items returns True if and only if no item failed, the
\* breaker did not trip and the output file was opened and written without
\* error; one failed item makes the file reported failed and the run exit
\* with status 1, whatever the threshold and whatever the later items do.
C22_SuccessIffNoFailure ==
    /\ ProcessReturned =>
          /\ success <=> /\ ItemFailures = 0
                         /\ ~processing_halted_by_breaker
                         /\ ~OutputFileError
          /\ OutputFileError => items_with_errors = ItemFailures + 1
    /\ (ProcessReturned /\ pc \in {"exited", "finished"}) =>
          /\ ~success <=> (pc = "exited" /\ exit_code = 1)
          /\ ItemFailures > 0 => (pc = "exited" /\ exit_code = 1)

C22_Witness ==
    /\ max_consecutive_line_failures = 0
    /\ trace = <<"failed", "ok", "ok">>
    /\ ~processing_halted_by_breaker /\ items_with_errors = 1
    /\ ~success /\ pc = "exited" /\ exit_code = 1

\* C23: an element that is not a dictionary is skipped and changes nothing but
\* the position in the list: processed, matched and error counts and the
\* consecutive-failure counter keep their values, the breaker flag is not
\* set and no record is emitted; a failure that follows therefore extends the
\* run of failures that preceded the skipped elements.
C23_SkipLeavesStateUnchanged ==
    [][ /\ (i' = i + 1 /\ ~last'.item.isdict) =>
              /\ trace' = Append(trace, "skipped")
              /\ last'.matches = NotCalled
              /\ UNCHANGED <<processed_items, matched_items, items_with_errors,
                             consecutive_item_failures, processing_halted_by_breaker,
                             all_results_json, outfile, output_writer, pc, success>>
        /\ (i' = i + 1 /\ trace' = Append(trace, "failed")) =>
              /\ consecutive_item_failures' = consecutive_item_failures + 1
              /\ consecutive_item_failures' >= TrailingFailures(trace')
              /\ CountOf(trace, "write_failed") = 0 =>
                    consecutive_item_failures' = TrailingFailures(trace')
      ]_vars

C23_Witness ==
    /\ max_consecutive_line_failures = 2
    /\ trace = <<"failed", "skipped", "failed">>
    /\ consecutive_item_failures = 2 /\ processing_halted_by_breaker
    /\ processed_items = 2 /\ items_with_errors = 2 /\ Emitted = <<>>

\* C24: while the item loop runs, 0 <= consecutive_item_failures <=
\* items_with_errors <= processed_items <= number of elements visited <=
\* number of items; with a threshold k > 0 the consecutive-failure counter
\* never exceeds k, and it is below k whenever the loop is not halted, that
\* is whenever a new item can start.
C24_CounterInvariants ==
    /\ pc = "loop" =>
          /\ 0 <= consecutive_item_failures
          /\ consecutive_item_failures <= items_with_errors
          /\ items_with_errors <= processed_items
          /\ processed_items <= i
          /\ i <= nItems
          /\ items_with_errors = ItemFailures
          /\ processed_items = Len(trace) - CountOf(trace, "skipped")
    /\ max_consecutive_line_failures > 0 =>
          /\ consecutive_item_failures <= max_consecutive_line_failures
          /\ (pc = "loop" /\ ~processing_halted_by_breaker) =>
                consecutive_item_failures < max_consecutive_line_failures

C24_Witness ==
    /\ pc = "loop" /\ ~processing_halted_by_breaker
    /\ max_consecutive_line_failures = 2
    /\ trace = <<"failed", "ok", "failed">>
    /\ consecutive_item_failures = 1 /\ items_with_errors = 2
    /\ processed_items = 3 /\ nItems = 3

\* the candidate is a dict whose 'id' is missing, is not a string, or is a
\* string without a 'doi:' prefix, without host doi.org and not starting
\* with '10.'
Unrecognized(c) ==
    /\ c.isdict
    /\ \/ ~Truthy(c.id)
       \/ c.id.type # "str"
       \/ LET s == c.id.text IN
            /\ LowerTok(Head(s)) # "doi:"
            /\ NetlocLower(Netloc(Head(s))) # "doi.org"
            /\ Strip(s) = <<>> \/ ~StartsWith10(Head(Strip(s)))

\* C25: when the first candidate's id is missing or is not recognized as a
\* DOI, the item is still a success: its record is emitted with empty
\* matched_doi and empty confidence and the consecutive-failure counter is
\* reset to 0 (a csv row that cannot be written then counts as one failure,
\* as for any successful item).
C25_UnrecognizedIdIsSuccess ==
    (trace # <<>> /\ GotCandidates /\ Unrecognized(FirstCandidate)) =>
        /\ LastOutcome # "failed"
        /\ last.write_ok =>
              /\ LastOutcome = "ok"
              /\ consecutive_item_failures = 0
              /\ ~processing_halted_by_breaker
              /\ Len(Emitted) = CountOf(trace, "ok")
              /\ Len(Emitted) > 0
              /\ LastRecord.matched_doi = EmptyStr
              /\ LastRecord.confidence = EmptyConfStr
        /\ ~last.write_ok => consecutive_item_failures = 1

C25_Witness ==
    /\ trace = <<"failed", "ok">>
    /\ GotCandidates
    /\ FirstCandidate = Cand(NoneId, NumConf(90000))
    /\ consecutive_item_failures = 0 /\ items_with_errors = 1
    /\ Len(Emitted) = 1
    /\ LastRecord.matched_doi = EmptyStr /\ LastRecord.confidence = EmptyConfStr

\* the key under which the results loader files record j, EmptyStr if it
\* files none
ResultKey(j) ==
    LET key == results_json.items[j].input_doi
    IN IF Truthy(key) THEN Lower(Strip(key.text)) ELSE EmptyStr

\* the key under which the reference loader files item j, EmptyStr if it
\* files none
ReferenceKey(j) ==
    LET input_data == JsonLoads(test_data_json.items[j].input)
    IN IF input_data.ok /\ input_data.isdict /\ Truthy(input_data.doi)
       THEN Lower(Strip(input_data.doi.text)) ELSE EmptyStr

\* position of the last record of a file with key k
LastWithKey(keys, k) ==
    CHOOSE j \in DOMAIN keys :
        keys[j] = k /\ \A h \in DOMAIN keys : keys[h] = k => h <= j

ResultKeys == [j \in DOMAIN results_json.items |-> ResultKey(j)]
ReferenceKeys == [j \in DOMAIN test_data_json.items |-> ReferenceKey(j)]

\* the maps in which every key has the value of its last record in file order
LastResults ==
    [k \in { ResultKeys[j] : j \in DOMAIN ResultKeys } \ {EmptyStr} |->
        LET value == results_json.items[LastWithKey(ResultKeys, k)].matched_doi
        IN IF Truthy(value) THEN StrId(Lower(Strip(value.text))) ELSE NoneId]

LastReferences ==
    [k \in { ReferenceKeys[j] : j \in DOMAIN ReferenceKeys } \ {EmptyStr} |->
        ValidDoiSet(test_data_json.items[LastWithKey(ReferenceKeys, k)].output)]

\* C26: when a file holds several records for the same normalized input DOI,
\* the last one in file order alone determines the loaded value and so the
\* classification; the metrics are those of the last records, and every
\* distinct input DOI is counted at most once.
C26_LastRecordWins ==
    /\ (epc \in {"reference_loaded", "results_loaded", "done"})
          => RefMap = LastReferences
    /\ (epc \in {"results_loaded", "done"}) => TestMap = LastResults
    /\ metrics.computed =>
          /\ metrics = calculate_metrics(LastReferences, LastResults)
          /\ metrics.TP + metrics.FP + metrics.FN
                <= Cardinality(DOMAIN LastReferences \cup DOMAIN LastResults)
          /\ \A k \in InputDois :
                Cardinality({ r \in metrics.detailed_results : r.input_doi = k }) <= 1

C26_Witness ==
    /\ metrics.computed
    /\ results_json.items = << ResRecord(StrId(<<"10.1/ABC">>), StrId(<<"10.2/X">>)),
                               ResRecord(StrId(<<"10.1/ABC">>), StrId(EmptyStr)) >>
    /\ test_data_json.items =
          << RefItem(<<"{DOI:10.1/b}">>, <<>>),
             RefItem(<<"{DOI:10.1/b}">>, << <<"doi:", "10.2/y">>, EmptyStr >>) >>
    /\ DOMAIN TestMap = {<<"10.1/abc">>} /\ TestMap[<<"10.1/abc">>] = NoneId
    /\ RefMap = (<<"10.1/b">> :> {<<"10.2/y">>})
    /\ metrics.TP = 0 /\ metrics.FP = 0 /\ metrics.FN = 1

====
